---- MODULE Spec2Model ----
(***************************************************************************)
(* Model of drivers/iio/trigger/axi-spi-engine-offload-pwm-trigger.c: the  *)
(* provider (platform driver probe and its devres teardown), the consumer  *)
(* API (devm_..._get_optional and ..._setup), the trigger ops and the      *)
(* sampling_frequency attribute.                                           *)
(***************************************************************************)
EXTENDS Integers, Sequences, FiniteSets, TLC

(***************************************************************************)
(* Machine integers.  TLC's integers are 32-bit, so a C value that may     *)
(* exceed 2^31 - 1 is held as a word: a sequence of 16-bit limbs, least    *)
(* significant first, whose length is the width of its C type.  A u32 that *)
(* travels through the state is the pair <<high limb, low limb>>.          *)
(***************************************************************************)
LimbBits == 16

LimbMod == 65536

IntBits == 32

RECURSIVE Zeros(_)
Zeros(k) == IF k = 0 THEN <<>> ELSE <<0>> \o Zeros(k - 1)

\* Zero-extension or truncation of a word to w bits (a C conversion between
\* unsigned types, or to a signed type of the same representation).
WordResize(a, w) ==
    LET k == w \div LimbBits
    IN  IF Len(a) >= k THEN SubSeq(a, 1, k) ELSE a \o Zeros(k - Len(a))

\* A natural below 2^31 as a word of w bits.
NatToWord(n, w) == WordResize(<<n % LimbMod, n \div LimbMod>>, w)

U32(n) == <<n \div LimbMod, n % LimbMod>>

U32ToWord(u, w) == WordResize(<<u[2], u[1]>>, w)

U32IsZero(u) == u[1] = 0 /\ u[2] = 0

RECURSIVE AddC(_, _, _)
AddC(a, b, c) ==
    IF a = <<>> THEN <<>>
    ELSE LET s == a[1] + b[1] + c
         IN  <<s % LimbMod>> \o AddC(Tail(a), Tail(b), s \div LimbMod)

RECURSIVE SubB(_, _, _)
SubB(a, b, c) ==
    IF a = <<>> THEN <<>>
    ELSE LET s == (a[1] - b[1]) - c
         IN  <<s % LimbMod>> \o SubB(Tail(a), Tail(b), IF s < 0 THEN 1 ELSE 0)

\* a + b and a - b in a type as wide as a: the carry out of the top limb is lost.
WordAdd(a, b) == AddC(a, b, 0)

WordSub(a, b) == SubB(a, b, 0)

RECURSIVE WordGeq(_, _)
WordGeq(a, b) ==
    IF a = <<>> THEN TRUE
    ELSE LET n == Len(a)
         IN  IF a[n] # b[n] THEN a[n] > b[n]
             ELSE WordGeq(SubSeq(a, 1, n - 1), SubSeq(b, 1, n - 1))

\* 2 * a + c in a type as wide as a.
RECURSIVE Shl1(_, _)
Shl1(a, c) ==
    IF a = <<>> THEN <<>>
    ELSE LET s == 2 * a[1] + c
         IN  <<s % LimbMod>> \o Shl1(Tail(a), s \div LimbMod)

\* Bit i of a word.
WordBit(a, i) == (a[(i \div LimbBits) + 1] \div 2 ^ (i % LimbBits)) % 2

\* One step of binary long division by d # 0: the next bit of the dividend
\* enters the remainder, the next bit of the quotient is whether d goes into it.
DivStep(s, d, bit) ==
    LET r == Shl1(s.r, bit)
    IN  IF WordGeq(r, d) THEN [q |-> Shl1(s.q, 1), r |-> WordSub(r, d)]
        ELSE [q |-> Shl1(s.q, 0), r |-> r]

\* Quotient and remainder of n by d # 0, the bits of n entering from the top;
\* DivBits is the quotient and remainder after the bits hi down to lo have
\* entered, from those (s) before them.  The words are one limb wider than n.
DivMod(n, d) ==
    LET DivBits[s \in [q : Seq(Nat), r : Seq(Nat)], lo \in Nat, hi \in Nat] ==
            IF lo = hi THEN DivStep(s, d, WordBit(n, lo))
            ELSE LET mid == (lo + hi + 1) \div 2
                 IN  DivBits[DivBits[s, mid, hi], lo, mid - 1]
    IN  DivBits[[q |-> Zeros(Len(n) + 1), r |-> Zeros(Len(n) + 1)],
                0, Len(n) * LimbBits - 1]

\* A word whose value is below 2^31, and that value.
WordIsSmall(a) ==
    /\ \A k \in 3..Len(a) : a[k] = 0
    /\ Len(a) >= 2 => a[2] < LimbMod \div 2

WordToNat(a) == IF Len(a) = 1 THEN a[1] ELSE a[1] + LimbMod * a[2]

\* n / d for d # 0, in a type as wide as n: directly when both values are below
\* 2^31, by binary long division otherwise.
WordDiv(n, d) ==
    IF WordIsSmall(n) /\ WordIsSmall(d)
    THEN NatToWord(WordToNat(n) \div WordToNat(d), Len(n) * LimbBits)
    ELSE LET w == Len(n) * LimbBits
         IN  WordResize(DivMod(n, WordResize(d, w + LimbBits)).q, w)

\* The value of the low 32 bits of a word read as a C int (two's complement).
WordToInt(a) ==
    LET hi == a[2]
    IN  IF hi < LimbMod \div 2 THEN a[1] + LimbMod * hi
        ELSE a[1] + LimbMod * (hi - LimbMod)

(***************************************************************************)
(* Text of the sampling_frequency attribute: a string is a sequence of     *)
(* one-character strings.                                                  *)
(***************************************************************************)
Digits == <<"0", "1", "2", "3", "4", "5", "6", "7", "8", "9">>

IsDigit(ch) == \E i \in 1..Len(Digits) : Digits[i] = ch

DigitVal(ch) == (CHOOSE i \in 1..Len(Digits) : Digits[i] = ch) - 1

\* _parse_integer: the leading digits of s accumulated in base 10.  acc is the
\* value modulo 2^32 as <<high, low>>, ovf tells that it left the u32 range, n
\* counts the digits used.  (The strings of the model are too short for the
\* unsigned long long accumulator of the kernel to overflow.)
RECURSIVE ParseInteger(_, _, _, _)
ParseInteger(s, acc, ovf, n) ==
    IF s = <<>> \/ ~IsDigit(s[1])
    THEN [val |-> acc, ovf |-> ovf, n |-> n, rest |-> s]
    ELSE LET lo == acc[2] * 10 + DigitVal(s[1])
             hi == acc[1] * 10 + lo \div LimbMod
         IN  ParseInteger(Tail(s), <<hi % LimbMod, lo % LimbMod>>,
                          ovf \/ hi >= LimbMod, n + 1)

\* kstrtou32(buf, 10, &val): an optional '+', at least one digit, an optional
\* final newline and nothing else; a value above U32_MAX is out of range.
kstrtou32(buf) ==
    LET s    == IF buf # <<>> /\ buf[1] = "+" THEN Tail(buf) ELSE buf
        p    == ParseInteger(s, <<0, 0>>, FALSE, 0)
        rest == IF p.rest # <<>> /\ p.rest[1] = "\n" THEN Tail(p.rest) ELSE p.rest
    IN  IF p.n = 0 \/ rest # <<>> THEN [ret |-> "EINVAL", val |-> <<0, 0>>]
        ELSE IF p.ovf THEN [ret |-> "ERANGE", val |-> <<0, 0>>]
        ELSE [ret |-> "OK", val |-> p.val]

\* The decimal digits of a natural ("%u").
RECURSIVE DecStr(_)
DecStr(n) ==
    IF n < 10 THEN <<Digits[n + 1]>>
    ELSE DecStr(n \div 10) \o <<Digits[(n % 10) + 1]>>

(***************************************************************************)
(* The rate controller.                                                    *)
(***************************************************************************)
NSEC_PER_SEC == 1000000000

DutyNs == 10

ProbeHz == 1000

\* The widths of C long the kernel is built with (BITS_PER_LONG).
LongWidths == {32, 64}

\* DIV_ROUND_UP(NSEC_PER_SEC, requested_hz) == (n + d - 1) / d.  NSEC_PER_SEC
\* is a long and requested_hz a u32: with a 64-bit long the arithmetic is done
\* in long, with a 32-bit long in unsigned long, where n + d wraps at 2^32.
DIV_ROUND_UP(n, d, bits) ==
    LET nw == NatToWord(n, bits)
        dw == U32ToWord(d, bits)
    IN  WordDiv(WordSub(WordAdd(nw, dw), NatToWord(1, bits)), dw)

\* int period_ns = DIV_ROUND_UP(NSEC_PER_SEC, requested_hz);
PeriodNs(requested_hz, bits) ==
    WordToInt(WordResize(DIV_ROUND_UP(NSEC_PER_SEC, requested_hz, bits), IntBits))

\* A u64 is the pair <<high 32 bits, low 32 bits>>; the model holds values
\* whose halves are below 2^31.
U64IsZero(v) == v[1] = 0 /\ v[2] = 0

U64ToWord(v) ==
    <<v[2] % LimbMod, v[2] \div LimbMod, v[1] % LimbMod, v[1] \div LimbMod>>

\* do_div(n, base) takes a 32-bit base: of a u64 divisor it keeps the low half.
\* With a low half of zero the division is by zero.
DoDivBase(divisor) == WordResize(WordResize(U64ToWord(divisor), IntBits), 2 * IntBits)

DoDivByZero(divisor) == divisor[2] = 0

\* DIV_ROUND_CLOSEST_ULL(x, divisor) for a u64 divisor whose low half is not
\* zero: unsigned long long _tmp = (x) + (divisor) / 2; do_div(_tmp, divisor);
\* the value is returned through a u32.
DIV_ROUND_CLOSEST_ULL(x, divisor) ==
    LET d    == U64ToWord(divisor)
        _tmp == WordAdd(NatToWord(x, 2 * IntBits), WordDiv(d, NatToWord(2, 2 * IntBits)))
    IN  WordToNat(WordResize(WordDiv(_tmp, DoDivBase(divisor)), IntBits))

(***************************************************************************)
(* Bounds of the model.                                                    *)
(***************************************************************************)
\* How often the provider's probe may be started.
MaxProbes == 1

\* How often one consumer may call devm_..._get_optional, and ..._setup.
MaxAcquire == 2

MaxSetup == 1

\* The frequencies of the rate round trip: 1..RoundTripMax Hz.
RoundTripMax == 10000

(***************************************************************************)
(* Objects.                                                                *)
(***************************************************************************)
\* What a consumer's firmware node says under "adi,offloads": nothing, a
\* reference that does not resolve, a reference to the provider's node, or a
\* reference to the node of another device that registered a trigger of its own.
PropKinds == {"absent", "malformed", "provider", "other"}

AxiTrig == "axi_trig"

OtherTrig == "other_trig"

Triggers == {AxiTrig, OtherTrig}

AxiOps == "axi_offload_pwm_trigger_ops"

OtherOps == "other_trigger_ops"

ProvDev == "offload_dev"

OtherDev == "other_dev"

\* The firmware nodes of the two devices an "adi,offloads" can reference.
ProvNode == "offload_node"

OtherNode == "other_node"

KObjects == {ProvNode, OtherNode, ProvDev, OtherDev}

ProvBuf == "rx_buffer"

HwModes == {"INDIO_BUFFER_HARDWARE", "INDIO_HARDWARE_TRIGGERED"}

\* Texts written to sampling_frequency while provider and consumers run.
SpecInputs ==
    { <<"5", "0", "0">>, <<"0">>, <<"1", "k">> }

\* Texts that probe the rate controller: zero, texts that are no number,
\* numbers beyond u32, and frequencies across the u32 range, among them
\* 3294967296 and 3294967297 (2^32 - 10^9 and the next) and U32_MAX.
RateInputs ==
    { <<"0">>, <<"0", "\n">>, <<"+", "0">>, <<"0", "0">>, <<>>, <<"\n">>, <<"+">>,
      <<"1", "k">>, <<"-", "1">>, <<"5", "0", "0", " ">>, <<"0", "x", "1", "0">>,
      <<"4", "2", "9", "4", "9", "6", "7", "2", "9", "6">>,
      <<"9", "9", "9", "9", "9", "9", "9", "9", "9", "9", "9">>,
      <<"1">>, <<"3">>, <<"5", "0", "0">>, <<"+", "2", "5", "0", "\n">>,
      <<"9", "9", "9", "9">>, <<"1", "0", "0", "0", "0", "0", "0", "0", "0">>,
      <<"1", "0", "0", "0", "0", "0", "0", "0", "1">>,
      <<"1", "0", "0", "0", "0", "0", "0", "0", "0", "0">>,
      <<"2", "1", "4", "7", "4", "8", "3", "6", "4", "8">>,
      <<"3", "2", "9", "4", "9", "6", "7", "2", "9", "6">>,
      <<"3", "2", "9", "4", "9", "6", "7", "2", "9", "7">>,
      <<"4", "0", "0", "0", "0", "0", "0", "0", "0", "0">>,
      <<"4", "2", "9", "4", "9", "6", "7", "2", "9", "5">> }

VARIABLES
    long_bits,  \* BITS_PER_LONG of the build
    on_bus,     \* the provider's platform device is on the platform bus
    ppc,        \* where the provider's probe (or its devres release) stands
    probes,     \* probes started so far
    devres,     \* the provider device's devres list, oldest first
    st,         \* struct axi_offload_pwm_trigger, and whether it is still allocated
    pwm,        \* the pwm_device: requested, enabled, period (period_hi: the
                \* bits above the 32nd), duty_cycle, and how
                \* often it was disabled since the probe requested it
    buf,        \* the DMA buffer: "none", "allocated" or "released"
    trig,       \* the provider's struct iio_trigger
    trig_refs,  \* reference count of each trigger's struct device
    kobj_refs,  \* reference count of each firmware node and platform device
    cons,       \* per consumer device: its property, its iio_dev, its devres list
    inputs,     \* the texts user space writes to sampling_frequency
    last        \* the most recent call: what was called, with what, and its return

vars == <<long_bits, on_bus, ppc, probes, devres, st, pwm, buf, trig, trig_refs,
          kobj_refs, cons, inputs, last>>

\* A call: the operation, the consumer and the trigger it is about, its text
\* argument, its return value, what it found (pre: a snapshot of the state the
\* claims compare with) and the arguments it handed to pwm_config, if it did.
Call(op, c, t, arg, ret, pre, call) ==
    [op |-> op, c |-> c, t |-> t, arg |-> arg, ret |-> ret, pre |-> pre,
     call |-> call]

NoCall == Call("none", "-", "-", <<>>, "-", <<>>, <<>>)

NoSt == [alive |-> FALSE, pwm |-> "none", buffer |-> "none"]

NoTrig == [state |-> "none", ops |-> "none", parent |-> "none",
           drvdata |-> "none", registered |-> FALSE]

NewCons(prop) ==
    [prop |-> prop, ret |-> "unset", devres |-> <<>>, modes |-> {},
     trig |-> "none", buffer |-> "none", via |-> "none", lost |-> <<>>,
     acquires |-> 0, setups |-> 0, gone |-> FALSE]

Init ==
    /\ long_bits \in LongWidths
    /\ on_bus = FALSE
    /\ ppc = "unbound"
    /\ probes = 0
    /\ devres = <<>>
    /\ st = NoSt
    /\ pwm = [requested |-> FALSE, enabled |-> FALSE, period |-> 0, period_hi |-> 0,
              duty |-> 0, disables |-> 0]
    /\ buf = "none"
    /\ trig = NoTrig
    /\ trig_refs = [t \in Triggers |-> IF t = OtherTrig THEN 1 ELSE 0]
    /\ kobj_refs = [o \in KObjects |-> IF o = ProvDev THEN 0 ELSE 1]
    /\ cons \in [{"c1"} -> {NewCons(k) : k \in PropKinds}]
    /\ inputs = SpecInputs
    /\ last = NoCall

(***************************************************************************)
(* The PWM consumer API, as far as the driver uses it.                     *)
(***************************************************************************)
\* pwm_config(pwm, duty_ns, period_ns): negative arguments are refused; an
\* unchanged configuration is not applied again; pwm_apply_state refuses a
\* zero period and a duty cycle above the period; hw_ok is whether the PWM
\* chip's driver accepts the state.
pwm_config(p, duty_ns, period_ns, hw_ok) ==
    IF duty_ns < 0 \/ period_ns < 0 THEN [ret |-> "EINVAL", pwm |-> p]
    ELSE IF p.duty = duty_ns /\ p.period = period_ns /\ p.period_hi = 0
         THEN [ret |-> "OK", pwm |-> p]
    ELSE IF period_ns = 0 \/ duty_ns > period_ns THEN [ret |-> "EINVAL", pwm |-> p]
    ELSE IF ~hw_ok THEN [ret |-> "EIO", pwm |-> p]
    ELSE [ret |-> "OK", pwm |-> [p EXCEPT !.duty = duty_ns, !.period = period_ns,
                                          !.period_hi = 0]]

\* pwm_enable(pwm)
pwm_enable(p, hw_ok) ==
    IF p.enabled THEN [ret |-> "OK", pwm |-> p]
    ELSE IF (p.period = 0 \/ p.duty > p.period) /\ p.period_hi = 0
         THEN [ret |-> "EINVAL", pwm |-> p]
    ELSE IF ~hw_ok THEN [ret |-> "EIO", pwm |-> p]
    ELSE [ret |-> "OK", pwm |-> [p EXCEPT !.enabled = TRUE]]

\* pwm_disable(pwm)
pwm_disable(p) == [p EXCEPT !.enabled = FALSE, !.disables = @ + 1]

\* pwm_get_period(pwm): the u64 period of the PWM's state.
pwm_get_period(p) == <<p.period_hi, p.period>>

(***************************************************************************)
(* The rate controller of the driver.                                      *)
(***************************************************************************)
\* A rate controller that asks for a duty cycle of half the period.
SetSampFreqHalfDuty(requested_hz, bits) ==
    <<PeriodNs(requested_hz, bits) \div 2, PeriodNs(requested_hz, bits)>>

\* The arguments axi_spi_engine_offload_set_samp_freq hands to pwm_config.
SetSampFreqArgs(requested_hz, bits) == <<DutyNs, PeriodNs(requested_hz, bits)>>

\* The rate controller without its test for zero: a division by zero left to
\* yield a period of 0.
SetSampFreqNoZeroCheck(p, requested_hz, bits, hw_ok) ==
    LET args == IF U32IsZero(requested_hz) THEN <<DutyNs, 0>>
                ELSE SetSampFreqArgs(requested_hz, bits)
        r    == pwm_config(p, args[1], args[2], hw_ok)
    IN  [ret |-> r.ret, pwm |-> r.pwm, call |-> args]

axi_spi_engine_offload_set_samp_freq(p, requested_hz, bits, hw_ok) ==
    IF U32IsZero(requested_hz)
    THEN [ret |-> "EINVAL", pwm |-> p, call |-> <<>>]
    ELSE LET args == SetSampFreqArgs(requested_hz, bits)
             r    == pwm_config(p, args[1], args[2], hw_ok)
         IN  [ret |-> r.ret, pwm |-> r.pwm, call |-> args]

\* The rate read back with a truncating division.
GetRateTruncating(p) ==
    IF p.period # 0 THEN NSEC_PER_SEC \div p.period ELSE 0

\* axi_spi_engine_offload_pwm_trigger_get_rate(trig), where its division is
\* defined (GetRateDividesByZero tells where it is not).
axi_spi_engine_offload_pwm_trigger_get_rate(p) ==
    LET period_ns == pwm_get_period(p)
    IN  IF ~U64IsZero(period_ns) THEN DIV_ROUND_CLOSEST_ULL(NSEC_PER_SEC, period_ns)
        ELSE 0

GetRateDividesByZero(p) ==
    ~U64IsZero(pwm_get_period(p)) /\ DoDivByZero(pwm_get_period(p))

(***************************************************************************)
(* The provider: axi_offload_pwm_trigger_probe, one action per resource it *)
(* acquires, so that calls of consumers interleave with it.  A step that   *)
(* fails returns from probe; the driver core then releases the devres list.*)
(***************************************************************************)
ProbeStep(op, ret) == Call(op, "-", "-", <<>>, ret, <<>>, <<>>)

\* The platform device of the provider appears on the platform bus.
ProviderDeviceAdd ==
    /\ ~on_bus
    /\ on_bus' = TRUE
    /\ kobj_refs' = [kobj_refs EXCEPT ![ProvDev] = 1]
    /\ last' = ProbeStep("device_add", "OK")
    /\ UNCHANGED <<long_bits, ppc, probes, devres, st, pwm, buf, trig, trig_refs, cons, inputs>>

\* st = devm_kzalloc(&pdev->dev, sizeof(*st), GFP_KERNEL);
ProbeKzalloc(ok) ==
    /\ on_bus /\ ppc = "unbound" /\ probes < MaxProbes
    /\ probes' = probes + 1
    /\ IF ok
       THEN /\ st' = [alive |-> TRUE, pwm |-> "none", buffer |-> "none"]
            /\ devres' = Append(devres, "kfree_st")
            /\ ppc' = "pwm_get"
            /\ last' = ProbeStep("devm_kzalloc", "OK")
       ELSE /\ ppc' = "failed"
            /\ last' = ProbeStep("devm_kzalloc", "ENOMEM")
            /\ UNCHANGED <<st, devres, kobj_refs>>
    /\ UNCHANGED <<long_bits, on_bus, pwm, buf, trig, trig_refs, cons, inputs, kobj_refs>>

\* st->pwm = devm_pwm_get(&pdev->dev, NULL);
ProbePwmGet(ok) ==
    /\ ppc = "pwm_get"
    /\ IF ok
       THEN /\ st' = [st EXCEPT !.pwm = "pwm"]
            /\ pwm' = [pwm EXCEPT !.requested = TRUE, !.disables = 0]
            /\ devres' = Append(devres, "pwm_put")
            /\ ppc' = "buffer_alloc"
            /\ last' = ProbeStep("devm_pwm_get", "OK")
       ELSE /\ ppc' = "failed"
            /\ last' = ProbeStep("devm_pwm_get", "ENODEV")
            /\ UNCHANGED <<st, pwm, devres, kobj_refs>>
    /\ UNCHANGED <<long_bits, on_bus, probes, buf, trig, trig_refs, cons, inputs, kobj_refs>>

\* st->buffer = devm_iio_dmaengine_buffer_alloc(&pdev->dev, "rx");
ProbeBufferAlloc(ok) ==
    /\ ppc = "buffer_alloc"
    /\ IF ok
       THEN /\ st' = [st EXCEPT !.buffer = ProvBuf]
            /\ buf' = "allocated"
            /\ devres' = Append(devres, "buffer_free")
            /\ ppc' = "trigger_alloc"
            /\ last' = ProbeStep("devm_iio_dmaengine_buffer_alloc", "OK")
       ELSE /\ ppc' = "failed"
            /\ last' = ProbeStep("devm_iio_dmaengine_buffer_alloc", "ENOMEM")
            /\ UNCHANGED <<st, buf, devres, kobj_refs>>
    /\ UNCHANGED <<long_bits, on_bus, probes, pwm, trig, trig_refs, cons, inputs, kobj_refs>>

\* trig = devm_iio_trigger_alloc(...); then ops, parent, groups and drvdata.
ProbeTriggerAlloc(ok) ==
    /\ ppc = "trigger_alloc"
    /\ IF ok
       THEN /\ trig' = [state |-> "allocated", ops |-> AxiOps, parent |-> ProvDev,
                        drvdata |-> "st", registered |-> FALSE]
            /\ trig_refs' = [trig_refs EXCEPT ![AxiTrig] = 1]
            /\ devres' = Append(devres, "trigger_free")
            /\ ppc' = "set_samp_freq"
            /\ last' = ProbeStep("devm_iio_trigger_alloc", "OK")
       ELSE /\ ppc' = "failed"
            /\ last' = ProbeStep("devm_iio_trigger_alloc", "ENOMEM")
            /\ UNCHANGED <<trig, trig_refs, devres, kobj_refs>>
    /\ UNCHANGED <<long_bits, on_bus, probes, st, pwm, buf, cons, inputs, kobj_refs>>

\* ret = axi_spi_engine_offload_set_samp_freq(st, 1000);
ProbeSetSampFreq(hw_ok) ==
    /\ ppc = "set_samp_freq"
    /\ LET r == axi_spi_engine_offload_set_samp_freq(pwm, U32(ProbeHz), long_bits, hw_ok)
       IN  /\ pwm' = r.pwm
           /\ ppc' = IF r.ret = "OK" THEN "pwm_enable" ELSE "failed"
           /\ last' = Call("set_samp_freq", "-", "-", <<>>, r.ret, <<>>, r.call)
    /\ UNCHANGED <<long_bits, on_bus, probes, devres, st, buf, trig, trig_refs, cons, inputs, kobj_refs>>

\* The probe going on although pwm_enable failed.
ProbePwmEnableUnchecked(hw_ok) ==
    /\ ppc = "pwm_enable"
    /\ pwm' = pwm_enable(pwm, hw_ok).pwm
    /\ ppc' = "add_action"
    /\ last' = ProbeStep("pwm_enable", pwm_enable(pwm, hw_ok).ret)
    /\ UNCHANGED <<long_bits, on_bus, probes, devres, st, buf, trig, trig_refs, cons, inputs, kobj_refs>>

\* ret = pwm_enable(st->pwm);
ProbePwmEnable(hw_ok) ==
    /\ ppc = "pwm_enable"
    /\ LET r == pwm_enable(pwm, hw_ok)
       IN  /\ pwm' = r.pwm
           /\ ppc' = IF r.ret = "OK" THEN "add_action" ELSE "failed"
           /\ last' = ProbeStep("pwm_enable", r.ret)
    /\ UNCHANGED <<long_bits, on_bus, probes, devres, st, buf, trig, trig_refs, cons, inputs, kobj_refs>>

\* The probe without the action that disables the PWM.
ProbeAddActionForgotten(ok) ==
    /\ ppc = "add_action"
    /\ ppc' = IF ok THEN "trigger_register" ELSE "failed"
    /\ pwm' = IF ok THEN pwm ELSE pwm_disable(pwm)
    /\ last' = ProbeStep("devm_add_action_or_reset", IF ok THEN "OK" ELSE "ENOMEM")
    /\ UNCHANGED <<long_bits, on_bus, probes, devres, st, buf, trig, trig_refs, cons, inputs, kobj_refs>>

\* The probe with devm_add_action in place of devm_add_action_or_reset: an
\* action that cannot be added is not run.
ProbeAddActionNoReset(ok) ==
    /\ ppc = "add_action"
    /\ devres' = IF ok THEN Append(devres, "pwm_disable") ELSE devres
    /\ ppc' = IF ok THEN "trigger_register" ELSE "failed"
    /\ last' = ProbeStep("devm_add_action_or_reset", IF ok THEN "OK" ELSE "ENOMEM")
    /\ UNCHANGED <<long_bits, on_bus, probes, st, pwm, buf, trig, trig_refs, cons, inputs, kobj_refs>>

\* ret = devm_add_action_or_reset(&pdev->dev, axi_offload_pwm_trigger_pwm_disable,
\* st->pwm): when the action cannot be added it is run at once.
ProbeAddAction(ok) ==
    /\ ppc = "add_action"
    /\ IF ok
       THEN /\ devres' = Append(devres, "pwm_disable")
            /\ ppc' = "trigger_register"
            /\ last' = ProbeStep("devm_add_action_or_reset", "OK")
            /\ UNCHANGED pwm
       ELSE /\ pwm' = pwm_disable(pwm)
            /\ ppc' = "failed"
            /\ last' = ProbeStep("devm_add_action_or_reset", "ENOMEM")
            /\ UNCHANGED devres
    /\ UNCHANGED <<long_bits, on_bus, probes, st, buf, trig, trig_refs, cons, inputs, kobj_refs>>

\* return devm_iio_trigger_register(&pdev->dev, trig);
ProbeTriggerRegister(ok) ==
    /\ ppc = "trigger_register"
    /\ IF ok
       THEN /\ trig' = [trig EXCEPT !.registered = TRUE]
            /\ devres' = Append(devres, "trigger_unregister")
            /\ ppc' = "bound"
            /\ last' = ProbeStep("devm_iio_trigger_register", "OK")
       ELSE /\ ppc' = "failed"
            /\ last' = ProbeStep("devm_iio_trigger_register", "ENOMEM")
            /\ UNCHANGED <<trig, devres, kobj_refs>>
    /\ UNCHANGED <<long_bits, on_bus, probes, st, pwm, buf, trig_refs, cons, inputs, kobj_refs>>

\* The provider is unbound from its device: the driver has no remove callback,
\* the driver core releases the devres list.
ProviderUnbind ==
    /\ ppc = "bound"
    /\ ppc' = "releasing"
    /\ last' = ProbeStep("unbind", "OK")
    /\ UNCHANGED <<long_bits, on_bus, probes, devres, st, pwm, buf, trig, trig_refs, cons, inputs, kobj_refs>>

\* iio_trigger_put(trig): the trigger is freed with its last reference.
PutTrigger(refs, t) == [refs EXCEPT ![t] = refs[t] - 1]

TrigAfterPut(tr, refs) ==
    IF refs[AxiTrig] = 0 /\ tr.state = "allocated"
    THEN [tr EXCEPT !.state = "freed"] ELSE tr

\* One entry of the devres list is released, the newest first: the action the
\* probe registered, or the release of the devm_ resource it obtained.
ProviderReleaseStep ==
    /\ ppc \in {"failed", "releasing"}
    /\ devres # <<>>
    /\ LET a == devres[Len(devres)]
       IN  /\ devres' = SubSeq(devres, 1, Len(devres) - 1)
           /\ last' = ProbeStep(a, "OK")
           /\ trig' = IF a = "trigger_unregister" THEN [trig EXCEPT !.registered = FALSE]
                      ELSE IF a = "trigger_free"
                      THEN TrigAfterPut(trig, PutTrigger(trig_refs, AxiTrig))
                      ELSE trig
           /\ trig_refs' = IF a = "trigger_free" THEN PutTrigger(trig_refs, AxiTrig)
                           ELSE trig_refs
           /\ pwm' = IF a = "pwm_disable" THEN pwm_disable(pwm)
                     ELSE IF a = "pwm_put" THEN [pwm EXCEPT !.requested = FALSE]
                     ELSE pwm
           /\ buf' = IF a # "buffer_free" THEN buf
                     ELSE IF buf = "allocated" THEN "released" ELSE "double_free"
           /\ st' = IF a = "kfree_st" THEN [st EXCEPT !.alive = FALSE] ELSE st
    /\ UNCHANGED <<long_bits, on_bus, ppc, probes, cons, inputs, kobj_refs>>

\* The devres list is empty: a failed probe may be tried again, an unbound
\* provider stays unbound.
ProviderReleaseDone ==
    /\ ppc \in {"failed", "releasing"}
    /\ devres = <<>>
    /\ ppc' = IF ppc = "failed" THEN "unbound" ELSE "removed"
    /\ last' = ProbeStep("devres_release_all", "OK")
    /\ UNCHANGED <<long_bits, on_bus, probes, devres, st, pwm, buf, trig, trig_refs, cons, inputs, kobj_refs>>

(***************************************************************************)
(* The consumer API.                                                       *)
(***************************************************************************)
\* trig->ops of a trigger.
TrigOps(t) == IF t = AxiTrig THEN trig.ops ELSE OtherOps

\* The trigger list of the IIO core: the triggers registered at the moment.
Registered(t) == IF t = AxiTrig THEN trig.registered ELSE TRUE

\* iio_trigger_acquire_by_parent(parent): the registered trigger whose
\* dev.parent is that device, with a reference taken, or none.
iio_trigger_acquire_by_parent(parent) ==
    IF parent = OtherDev THEN OtherTrig
    ELSE IF trig.registered /\ trig.parent = parent THEN AxiTrig
    ELSE "none"

\* fwnode_find_reference(dev_fwnode(dev), "adi,offloads", 0): the node the
\* property references, with a reference taken, or none (an error pointer).
fwnode_find_reference(prop) ==
    IF prop = "provider" THEN ProvNode
    ELSE IF prop = "other" THEN OtherNode
    ELSE "none"

\* bus_find_device_by_fwnode(&platform_bus_type, offload): the platform device
\* of that node, with a reference taken, or none (NULL).
bus_find_device_by_fwnode(offload) ==
    IF offload = OtherNode THEN OtherDev
    ELSE IF offload = ProvNode /\ on_bus THEN ProvDev
    ELSE "none"

\* The node and the device whose references a call of get_optional took and
\* has not put when it returns: the function has no fwnode_handle_put and no
\* put_device on any path.
GetOptionalKeeps(prop) ==
    IF prop = "absent" THEN {}
    ELSE LET offload     == fwnode_find_reference(prop)
             offload_dev == IF offload = "none" THEN "none"
                            ELSE bus_find_device_by_fwnode(offload)
         IN  {offload, offload_dev} \ {"none"}

\* devm_axi_spi_engine_offload_pwm_trigger_get_optional(dev): its return value,
\* the trigger whose reference it keeps (held) and whether it left a release
\* action in the consumer's devres list (action).  add_ok is whether
\* devm_add_action_or_reset can allocate the action.
GetOptionalResult(ret, held, action) == [ret |-> ret, held |-> held, action |-> action]

\* Discovery that reports a missing device or trigger as a hard error.
GetOptionalNoDefer(prop, add_ok) ==
    IF prop = "absent" THEN GetOptionalResult("NULL", "none", FALSE)
    ELSE IF prop = "malformed" THEN GetOptionalResult("ENOENT", "none", FALSE)
    ELSE LET offload_dev == IF prop = "other" THEN OtherDev
                            ELSE IF on_bus THEN ProvDev ELSE "none"
             t == iio_trigger_acquire_by_parent(offload_dev)
         IN  IF offload_dev = "none" THEN GetOptionalResult("ENODEV", "none", FALSE)
             ELSE IF t = "none" THEN GetOptionalResult("ENODEV", "none", FALSE)
             ELSE IF ~add_ok THEN GetOptionalResult("ENOMEM", "none", FALSE)
             ELSE IF TrigOps(t) # AxiOps THEN GetOptionalResult("EINVAL", t, TRUE)
             ELSE GetOptionalResult(t, t, TRUE)

\* Discovery without the check of trig->ops.
GetOptionalNoOpsCheck(prop, add_ok) ==
    IF prop = "absent" THEN GetOptionalResult("NULL", "none", FALSE)
    ELSE IF prop = "malformed" THEN GetOptionalResult("ENOENT", "none", FALSE)
    ELSE LET offload_dev == IF prop = "other" THEN OtherDev
                            ELSE IF on_bus THEN ProvDev ELSE "none"
             t == iio_trigger_acquire_by_parent(offload_dev)
         IN  IF offload_dev = "none" THEN GetOptionalResult("EPROBE_DEFER", "none", FALSE)
             ELSE IF t = "none" THEN GetOptionalResult("EPROBE_DEFER", "none", FALSE)
             ELSE IF ~add_ok THEN GetOptionalResult("ENOMEM", "none", FALSE)
             ELSE GetOptionalResult(t, t, TRUE)

\* Discovery without the test for the property: a device without it goes
\* on to fwnode_find_reference, which finds nothing.
GetOptionalNoPropertyCheck(prop, add_ok) ==
    IF prop \in {"absent", "malformed"} THEN GetOptionalResult("ENOENT", "none", FALSE)
    ELSE LET offload_dev == IF prop = "other" THEN OtherDev
                            ELSE IF on_bus THEN ProvDev ELSE "none"
             t == iio_trigger_acquire_by_parent(offload_dev)
         IN  IF offload_dev = "none" THEN GetOptionalResult("EPROBE_DEFER", "none", FALSE)
             ELSE IF t = "none" THEN GetOptionalResult("EPROBE_DEFER", "none", FALSE)
             ELSE IF ~add_ok THEN GetOptionalResult("ENOMEM", "none", FALSE)
             ELSE IF TrigOps(t) # AxiOps THEN GetOptionalResult("EINVAL", t, TRUE)
             ELSE GetOptionalResult(t, t, TRUE)

\* Discovery that keeps the trigger's reference when the release action
\* cannot be added (devm_add_action in place of devm_add_action_or_reset).
GetOptionalLeakOnNoMemory(prop, add_ok) ==
    IF prop = "absent" THEN GetOptionalResult("NULL", "none", FALSE)
    ELSE IF prop = "malformed" THEN GetOptionalResult("ENOENT", "none", FALSE)
    ELSE LET offload_dev == IF prop = "other" THEN OtherDev
                            ELSE IF on_bus THEN ProvDev ELSE "none"
             t == iio_trigger_acquire_by_parent(offload_dev)
         IN  IF offload_dev = "none" THEN GetOptionalResult("EPROBE_DEFER", "none", FALSE)
             ELSE IF t = "none" THEN GetOptionalResult("EPROBE_DEFER", "none", FALSE)
             ELSE IF ~add_ok THEN GetOptionalResult("ENOMEM", t, FALSE)
             ELSE IF TrigOps(t) # AxiOps THEN GetOptionalResult("EINVAL", t, TRUE)
             ELSE GetOptionalResult(t, t, TRUE)

devm_axi_spi_engine_offload_pwm_trigger_get_optional(prop, add_ok) ==
    IF prop = "absent" THEN GetOptionalResult("NULL", "none", FALSE)
    ELSE IF prop = "malformed" THEN GetOptionalResult("ENOENT", "none", FALSE)
    ELSE LET offload_dev == IF prop = "other" THEN OtherDev
                            ELSE IF on_bus THEN ProvDev ELSE "none"
             t == iio_trigger_acquire_by_parent(offload_dev)
         IN  IF offload_dev = "none" THEN GetOptionalResult("EPROBE_DEFER", "none", FALSE)
             ELSE IF t = "none" THEN GetOptionalResult("EPROBE_DEFER", "none", FALSE)
             ELSE IF ~add_ok THEN GetOptionalResult("ENOMEM", "none", FALSE)
             ELSE IF TrigOps(t) # AxiOps THEN GetOptionalResult("EINVAL", t, TRUE)
             ELSE GetOptionalResult(t, t, TRUE)

GetOptional(c, add_ok) ==
    /\ ~cons[c].gone
    /\ cons[c].acquires < MaxAcquire
    /\ LET r == devm_axi_spi_engine_offload_pwm_trigger_get_optional(cons[c].prop, add_ok)
       IN  /\ cons' = [cons EXCEPT ![c].ret = r.ret,
                                   ![c].acquires = @ + 1,
                                   ![c].devres = IF r.action THEN Append(@, r.held) ELSE @]
           /\ trig_refs' = IF r.held # "none"
                           THEN [trig_refs EXCEPT ![r.held] = @ + 1] ELSE trig_refs
           /\ kobj_refs' = [o \in KObjects |->
                              IF o \in GetOptionalKeeps(cons[c].prop)
                              THEN kobj_refs[o] + 1 ELSE kobj_refs[o]]
           /\ last' = Call("get_optional", c, r.held, <<add_ok>>, r.ret,
                           [refs |-> trig_refs, cons |-> cons[c], kobj |-> kobj_refs],
                           <<>>)
    /\ UNCHANGED <<long_bits, on_bus, ppc, probes, devres, st, pwm, buf, trig, inputs>>

\* st->buffer as axi_spi_engine_offload_pwm_trigger_setup reads it: st is the
\* trigger's drvdata, memory of the provider device.  Once the provider has
\* released it the read is of freed memory and may yield the old pointer or
\* anything else.
StBufferRead == IF st.alive THEN {st.buffer} ELSE {st.buffer, "garbage"}

\* The triggers a consumer can hand to setup: the one get_optional returned to
\* it, or (bypassing discovery) the trigger of the other device.
Handles(c) == ({cons[c].ret} \cap Triggers) \cup {OtherTrig}

\* The attachment with the modes set before the check of trig->ops.
SetupModesFirst(cn, t, b, attach_ok) ==
    IF TrigOps(t) # AxiOps
    THEN [ret |-> "EINVAL", cons |-> [cn EXCEPT !.modes = @ \cup HwModes], get |-> FALSE]
    ELSE [ret  |-> IF attach_ok THEN "OK" ELSE "ENOMEM",
          cons |-> [cn EXCEPT !.modes = @ \cup HwModes,
                              !.trig = t,
                              !.lost = IF cn.trig # "none" THEN Append(@, cn.trig) ELSE @,
                              !.via = "setup",
                              !.buffer = IF attach_ok THEN b ELSE @],
          get  |-> TRUE]

\* axi_spi_engine_offload_pwm_trigger_setup(indio_dev, trig) on the iio_dev of
\* consumer record cn: its return value, the iio_dev it leaves and whether it
\* took a reference on the trigger.  b is what the read of st->buffer yields,
\* attach_ok is whether iio_device_attach_buffer succeeds.
axi_spi_engine_offload_pwm_trigger_setup(cn, t, b, attach_ok) ==
    IF TrigOps(t) # AxiOps
    THEN [ret |-> "EINVAL", cons |-> cn, get |-> FALSE]
    ELSE [ret  |-> IF attach_ok THEN "OK" ELSE "ENOMEM",
          cons |-> [cn EXCEPT !.modes = @ \cup HwModes,
                              !.trig = t,
                              !.lost = IF cn.trig # "none" THEN Append(@, cn.trig) ELSE @,
                              !.via = "setup",
                              !.buffer = IF attach_ok THEN b ELSE @],
          get  |-> TRUE]

Setup(c, t, b, attach_ok) ==
    /\ ~cons[c].gone
    /\ cons[c].setups < MaxSetup
    /\ t \in Handles(c)
    /\ b \in StBufferRead
    /\ LET r == axi_spi_engine_offload_pwm_trigger_setup(cons[c], t, b, attach_ok)
       IN  /\ cons' = [cons EXCEPT ![c] = [r.cons EXCEPT !.setups = @ + 1]]
           /\ trig_refs' = IF r.get THEN [trig_refs EXCEPT ![t] = @ + 1] ELSE trig_refs
           /\ last' = Call("setup", c, t, <<b>>, r.ret,
                           [refs |-> trig_refs, cons |-> cons[c]], <<>>)
    /\ UNCHANGED <<long_bits, on_bus, ppc, probes, devres, st, pwm, buf, trig, inputs, kobj_refs>>

\* A release action that puts nothing.
ReleaseNone(refs, actions) == refs

\* axi_spi_engine_offload_pwm_trigger_release for every entry of a consumer's
\* devres list, the newest first.
RECURSIVE ReleaseAll(_, _)
ReleaseAll(refs, actions) ==
    IF actions = <<>> THEN refs
    ELSE ReleaseAll(PutTrigger(refs, actions[Len(actions)]),
                    SubSeq(actions, 1, Len(actions) - 1))

\* The consumer device goes away: its devres list is released and the IIO core
\* drops the reference its iio_dev holds on its current trigger.
ConsumerTeardown(c) ==
    /\ ~cons[c].gone
    /\ LET r1 == ReleaseAll(trig_refs, cons[c].devres)
           r2 == IF cons[c].trig # "none" THEN PutTrigger(r1, cons[c].trig) ELSE r1
       IN  /\ trig_refs' = r2
           /\ trig' = TrigAfterPut(trig, r2)
           /\ cons' = [cons EXCEPT ![c] = [NewCons(@.prop) EXCEPT !.gone = TRUE,
                                                                 !.lost = cons[c].lost]]
           /\ last' = Call("teardown", c, cons[c].trig, <<>>, "OK",
                           [refs |-> trig_refs, cons |-> cons[c], pwm |-> pwm], <<>>)
    /\ UNCHANGED <<long_bits, on_bus, ppc, probes, devres, st, pwm, buf, inputs, kobj_refs>>

(***************************************************************************)
(* The trigger ops.                                                        *)
(***************************************************************************)
\* A validate_device that lets every device use the trigger.
ValidateDeviceAccepts(t, c) == "OK"

\* axi_offload_pwm_trigger_validate_device(trig, indio_dev)
axi_offload_pwm_trigger_validate_device(t, c) == "EINVAL"

\* ops->validate_device of a trigger's ops table (the other device's driver
\* lets any device use its trigger).
ValidateDevice(t, c) ==
    IF TrigOps(t) = AxiOps THEN axi_offload_pwm_trigger_validate_device(t, c)
    ELSE "OK"

\* A write of a trigger's name to a consumer's current_trigger attribute: the
\* IIO core looks the trigger up in its list, asks the trigger's
\* validate_device and, if that agrees, makes it the device's trigger.
SysfsAssignTrigger(c, t) ==
    /\ ~cons[c].gone
    /\ Registered(t)
    /\ cons[c].trig # t
    /\ LET ret == ValidateDevice(t, c)
           old == cons[c].trig
           r1  == IF old # "none" THEN PutTrigger(trig_refs, old) ELSE trig_refs
       IN  /\ IF ret = "OK"
              THEN /\ cons' = [cons EXCEPT ![c].trig = t, ![c].via = "sysfs"]
                   /\ trig_refs' = [r1 EXCEPT ![t] = @ + 1]
                   /\ trig' = TrigAfterPut(trig, r1)
              ELSE UNCHANGED <<cons, trig_refs, trig, kobj_refs>>
           /\ last' = Call("current_trigger", c, t, <<>>, ret,
                           [refs |-> trig_refs, cons |-> cons[c]], <<>>)
    /\ UNCHANGED <<long_bits, on_bus, ppc, probes, devres, st, pwm, buf, inputs, kobj_refs>>

(***************************************************************************)
(* The sampling_frequency attribute of the trigger's device.  It exists    *)
(* from the registration of the trigger to its unregistration.             *)
(***************************************************************************)
\* sampling_frequency_store(dev, attr, buf, len): its return value ("len", or
\* the error), the PWM state it leaves and what it handed to pwm_config.
sampling_frequency_store(p, buffer, bits, hw_ok) ==
    LET k == kstrtou32(buffer)
    IN  IF k.ret # "OK" THEN [ret |-> k.ret, pwm |-> p, call |-> <<>>]
        ELSE LET r == axi_spi_engine_offload_set_samp_freq(p, k.val, bits, hw_ok)
             IN  IF r.ret # "OK" THEN r
                 ELSE [ret |-> "len", pwm |-> r.pwm, call |-> r.call]

\* sampling_frequency_show(dev, attr, buf): sysfs_emit(buf, "%u\n", rate)
sampling_frequency_show(p) ==
    DecStr(axi_spi_engine_offload_pwm_trigger_get_rate(p)) \o <<"\n">>

RateStore(buffer, hw_ok) ==
    /\ trig.registered
    /\ buffer \in inputs
    /\ LET r == sampling_frequency_store(pwm, buffer, long_bits, hw_ok)
       IN  /\ pwm' = r.pwm
           /\ last' = Call("store", "-", AxiTrig, buffer, r.ret, pwm, r.call)
    /\ UNCHANGED <<long_bits, on_bus, ppc, probes, devres, st, buf, trig, trig_refs, cons, inputs, kobj_refs>>

\* The write that came right before a read, if one did.
PrevStore ==
    IF last.op = "store" THEN <<"store", last.arg, last.ret>> ELSE <<"none", <<>>, "-">>

\* What a division by zero in do_div leaves of a read: a trap that kills the
\* reader, or a quotient of the machine's making (here 0 or U32_MAX).
DivideByZeroOutcomes ==
    { [ret |-> "oops", text |-> <<>>],
      [ret |-> "OK", text |-> <<"0", "\n">>],
      [ret |-> "OK", text |-> <<"4", "2", "9", "4", "9", "6", "7", "2", "9", "5", "\n">>] }

ShowOutcomes(p) ==
    IF GetRateDividesByZero(p) THEN DivideByZeroOutcomes
    ELSE {[ret |-> "OK", text |-> sampling_frequency_show(p)]}

RateShow ==
    /\ trig.registered
    /\ \E out \in ShowOutcomes(pwm) :
          last' = Call("show", "-", AxiTrig, out.text, out.ret,
                       [pwm |-> pwm, prev |-> PrevStore], <<>>)
    /\ UNCHANGED <<long_bits, on_bus, ppc, probes, devres, st, pwm, buf, trig, trig_refs, cons, inputs, kobj_refs>>

(***************************************************************************)
(* The system.                                                             *)
(***************************************************************************)
Next ==
    \/ ProviderDeviceAdd
    \/ \E ok \in BOOLEAN : ProbeKzalloc(ok)
    \/ \E ok \in BOOLEAN : ProbePwmGet(ok)
    \/ \E ok \in BOOLEAN : ProbeBufferAlloc(ok)
    \/ \E ok \in BOOLEAN : ProbeTriggerAlloc(ok)
    \/ \E ok \in BOOLEAN : ProbeSetSampFreq(ok)
    \/ \E ok \in BOOLEAN : ProbePwmEnable(ok)
    \/ \E ok \in BOOLEAN : ProbeAddAction(ok)
    \/ \E ok \in BOOLEAN : ProbeTriggerRegister(ok)
    \/ ProviderUnbind
    \/ ProviderReleaseStep
    \/ ProviderReleaseDone
    \/ \E c \in DOMAIN cons, ok \in BOOLEAN : GetOptional(c, ok)
    \/ \E c \in DOMAIN cons, t \in Triggers, b \in StBufferRead, ok \in BOOLEAN :
          Setup(c, t, b, ok)
    \/ \E c \in DOMAIN cons : ConsumerTeardown(c)
    \/ \E c \in DOMAIN cons, t \in Triggers : SysfsAssignTrigger(c, t)
    \/ \E s \in inputs, ok \in BOOLEAN : RateStore(s, ok)
    \/ RateShow

Spec == Init /\ [][Next]_vars

(***************************************************************************)
(* The rate attribute alone, on a provider that has been probed: user      *)
(* space writes either the texts of RateInputs or one frequency of         *)
(* 1..RoundTripMax, and reads the attribute.                               *)
(***************************************************************************)
BoundPwm(period) ==
    [requested |-> TRUE, enabled |-> TRUE, period |-> period[2],
     period_hi |-> period[1], duty |-> DutyNs, disables |-> 0]

\* The provider after a successful probe, but for its PWM.
ProviderBoundButPwm ==
    /\ on_bus = TRUE /\ ppc = "bound" /\ probes = 1
    /\ devres = <<"kfree_st", "pwm_put", "buffer_free", "trigger_free",
                  "pwm_disable", "trigger_unregister">>
    /\ st = [alive |-> TRUE, pwm |-> "pwm", buffer |-> ProvBuf]
    /\ buf = "allocated"
    /\ trig = [state |-> "allocated", ops |-> AxiOps, parent |-> ProvDev,
               drvdata |-> "st", registered |-> TRUE]
    /\ trig_refs = [t \in Triggers |-> 1]
    /\ kobj_refs = [o \in KObjects |-> 1]

ProviderBound ==
    /\ ProviderBoundButPwm
    /\ pwm = BoundPwm(<<0, NSEC_PER_SEC \div ProbeHz>>)

InitRate ==
    /\ long_bits \in LongWidths
    /\ ProviderBound
    /\ cons = [c \in {"c1"} |-> NewCons("provider")]
    /\ inputs \in {RateInputs} \cup {{DecStr(f)} : f \in 1..RoundTripMax}
    /\ last = NoCall

NextRate ==
    \/ \E s \in inputs, ok \in BOOLEAN : RateStore(s, ok)
    \/ RateShow

SpecRate == InitRate /\ [][NextRate]_vars

(***************************************************************************)
(* Two consumer devices whose "adi,offloads" both reference the provider,  *)
(* which has been probed: each acquires the trigger and sets it up.        *)
(***************************************************************************)
Consumers == {"c1", "c2"}

InitPair ==
    /\ long_bits \in LongWidths
    /\ ProviderBound
    /\ cons = [c \in Consumers |-> NewCons("provider")]
    /\ inputs = {}
    /\ last = NoCall

NextPair ==
    \/ \E c \in DOMAIN cons, ok \in BOOLEAN : GetOptional(c, ok)
    \/ \E c \in DOMAIN cons, t \in Triggers, b \in StBufferRead, ok \in BOOLEAN :
          Setup(c, t, b, ok)
    \/ \E c \in DOMAIN cons : ConsumerTeardown(c)

SpecPair == InitPair /\ [][NextPair]_vars

(***************************************************************************)
(* The rate read back, as a function of the period the PWM core reports:   *)
(* the attribute is read with the PWM's period at any of PeriodSamples, a  *)
(* u64, among them 0 and periods of 2^32 and more.                         *)
(***************************************************************************)
LowSamples ==
    { 0, 1, 2, 3, 7, 10, 999, 1000, 1001, 100011, 1000000, 2000000, 333333334,
      500000000, 666666667, 1000000000, 1000000001, 2000000000, 2000000001,
      2147483647 }

PeriodSamples ==
    {<<0, lo>> : lo \in LowSamples}
    \cup {<<hi, lo>> : hi \in {1, 2}, lo \in {l \in LowSamples : l = 0 \/ l >= 10}}

InitGetRate ==
    /\ long_bits \in LongWidths
    /\ ProviderBoundButPwm
    /\ pwm \in {BoundPwm(period) : period \in PeriodSamples}
    /\ cons = [c \in {"c1"} |-> NewCons("provider")]
    /\ inputs = {}
    /\ last = NoCall

NextGetRate == RateShow

SpecGetRate == InitGetRate /\ [][NextGetRate]_vars

(***************************************************************************)
(* Properties of discovery and acquisition.                                *)
(***************************************************************************)
\* The last call was devm_..._get_optional by a consumer whose property names
\* the provider's node.
AcquireFromProvider == last.op = "get_optional" /\ last.pre.cons.prop = "provider"

\* C1, as stated: a consumer whose reference names the provider gets
\* -EPROBE_DEFER from get_optional while no trigger is registered under the
\* provider, and the trigger in every state in which one is.
C1_DeferredUntilRegistered ==
    AcquireFromProvider =>
        IF trig.registered THEN last.ret = AxiTrig ELSE last.ret = "EPROBE_DEFER"

\* C1, amended: get_optional returns -EPROBE_DEFER while no trigger is
\* registered under the provider; while one is, it returns that trigger, alive
\* and with one more reference, unless the release action cannot be added, in
\* which case it returns that error and keeps no reference.
C1_DeferredUntilRegisteredOrNoMemory ==
    AcquireFromProvider =>
        IF ~trig.registered
        THEN last.ret = "EPROBE_DEFER" /\ trig_refs = last.pre.refs
        ELSE IF last.arg[1]
        THEN /\ last.ret = AxiTrig
             /\ trig.state = "allocated"
             /\ trig_refs[AxiTrig] = last.pre.refs[AxiTrig] + 1
        ELSE last.ret = "ENOMEM" /\ trig_refs = last.pre.refs

\* A consumer that was deferred has called again and got the trigger.
C1_RetrySucceeded ==
    /\ AcquireFromProvider
    /\ last.pre.cons.ret = "EPROBE_DEFER"
    /\ last.ret = AxiTrig

\* C2: while the trigger is registered its provider is fully initialised: the
\* PWM is requested and enabled with a nonzero period, the buffer is allocated
\* and in st, and the ops table is set; at the moment of registration the rate
\* is the initial 1000 Hz.
C2_RegisteredIsInitialised ==
    /\ trig.registered =>
          /\ pwm.requested /\ pwm.enabled
          /\ pwm.period # 0 /\ pwm.duty = DutyNs
          /\ st.alive /\ st.pwm = "pwm" /\ st.buffer = ProvBuf
          /\ buf = "allocated"
          /\ trig.state = "allocated" /\ trig.ops = AxiOps /\ trig.drvdata = "st"
    /\ (last.op = "devm_iio_trigger_register" /\ last.ret = "OK") =>
          axi_spi_engine_offload_pwm_trigger_get_rate(pwm) = ProbeHz

\* A consumer has acquired the registered trigger.
C2_AcquiredWhileRegistered ==
    AcquireFromProvider /\ last.ret = AxiTrig /\ trig.registered /\ pwm.enabled

\* The last call was get_optional by a consumer whose reference names a device
\* with a registered trigger of another driver.
AcquireFromOther == last.op = "get_optional" /\ last.pre.cons.prop = "other"

\* C3, as stated: when the referenced device has a registered trigger with
\* another ops table, get_optional returns -EINVAL.
C3_TypeMismatch == AcquireFromOther => last.ret = "EINVAL"

\* C3, amended: get_optional then never returns that trigger; it returns
\* -EINVAL, keeping the reference for the consumer's release action, unless
\* the release action cannot be added, in which case it returns that error.
C3_TypeMismatchOrNoMemory ==
    AcquireFromOther =>
        /\ last.ret \notin Triggers
        /\ IF last.arg[1]
           THEN /\ last.ret = "EINVAL"
                /\ trig_refs[OtherTrig] = last.pre.refs[OtherTrig] + 1
                /\ cons[last.c].devres = Append(last.pre.cons.devres, OtherTrig)
           ELSE last.ret = "ENOMEM" /\ trig_refs = last.pre.refs

\* The owner lookup found the other driver's trigger and it was refused.
C3_ForeignTriggerRefused ==
    AcquireFromOther /\ last.t = OtherTrig /\ last.ret = "EINVAL"

\* C4: a consumer without the property gets NULL from get_optional, whatever
\* the provider's state; no reference is taken and no release action added.
C4_AbsentIsNull ==
    (last.op = "get_optional" /\ last.pre.cons.prop = "absent") =>
        /\ last.ret = "NULL"
        /\ trig_refs = last.pre.refs
        /\ cons[last.c].devres = last.pre.cons.devres

\* A consumer without the property called while the trigger was registered.
C4_AbsentWhileRegistered ==
    /\ last.op = "get_optional" /\ last.pre.cons.prop = "absent"
    /\ trig.registered /\ last.ret = "NULL"

(***************************************************************************)
(* Properties of the attachment.                                           *)
(***************************************************************************)
\* C5: setup with a trigger of another ops table returns -EINVAL and leaves
\* the consumer's modes, trigger and buffer and the reference counts as they
\* were.
C5_MismatchChangesNothing ==
    (last.op = "setup" /\ TrigOps(last.t) # AxiOps) =>
        /\ last.ret = "EINVAL"
        /\ cons[last.c].modes = last.pre.cons.modes
        /\ cons[last.c].trig = last.pre.cons.trig
        /\ cons[last.c].buffer = last.pre.cons.buffer
        /\ cons[last.c].via = last.pre.cons.via
        /\ trig_refs = last.pre.refs

\* setup was called with the other driver's trigger.
C5_ForeignTriggerSetup ==
    last.op = "setup" /\ last.t = OtherTrig /\ last.ret = "EINVAL"

\* C6: after a successful setup the consumer's trigger is the one passed in,
\* its buffer is the buffer the trigger's provider owns, its modes include the
\* hardware modes and the trigger has one more reference.
C6_SetupAttachesOwnBuffer ==
    (last.op = "setup" /\ last.ret = "OK") =>
        /\ cons[last.c].trig = last.t
        /\ cons[last.c].buffer = ProvBuf /\ buf = "allocated"
        /\ HwModes \subseteq cons[last.c].modes
        /\ trig_refs[last.t] = last.pre.refs[last.t] + 1

(***************************************************************************)
(* Properties of the rate controller.                                      *)
(***************************************************************************)
U32ToNat(u) == u[1] * LimbMod + u[2]

\* ceil(10^9 / hz) for a u32 hz: 1 for every hz of 2^31 and more.
CeilPeriod(hz) ==
    IF hz[1] >= LimbMod \div 2 THEN 1
    ELSE (NSEC_PER_SEC - 1) \div U32ToNat(hz) + 1

\* round(x / d), halves upwards.
RoundDiv(x, d) == IF 2 * (x % d) >= d THEN x \div d + 1 ELSE x \div d

\* C7: a write of a u32 other than 0 hands pwm_config the duty 10 and the
\* period ceil(10^9 / requested_hz); a write of 0 fails with -EINVAL.
C7_PeriodIsCeiling ==
    (last.op = "store" /\ kstrtou32(last.arg).ret = "OK") =>
        IF U32IsZero(kstrtou32(last.arg).val)
        THEN last.ret = "EINVAL" /\ last.call = <<>>
        ELSE last.call = <<DutyNs, CeilPeriod(kstrtou32(last.arg).val)>>

\* The attribute was read right after a successful write.
ReadAfterWrite ==
    /\ last.op = "show"
    /\ last.pre.prev[1] = "store" /\ last.pre.prev[3] = "len"

\* The frequency that write asked for.
WrittenHz == U32ToNat(kstrtou32(last.pre.prev[2]).val)

\* C8: for f in 1..10000, the attribute read after f was written gives
\* round(10^9 / ceil(10^9 / f)), which is within 1 Hz of f.
C8_RoundTrip ==
    (ReadAfterWrite /\ WrittenHz \in 1..RoundTripMax) =>
        LET back == RoundDiv(NSEC_PER_SEC, CeilPeriod(U32(WrittenHz)))
        IN  /\ last.arg = DecStr(back) \o <<"\n">>
            /\ back - WrittenHz \in {-1, 0, 1}

\* 500 was written and read back as 500.
C8_RoundTrip500 ==
    /\ ReadAfterWrite
    /\ last.pre.prev[2] = <<"5", "0", "0">>
    /\ last.arg = <<"5", "0", "0", "\n">>

\* Texts for zero, and texts that are no unsigned 32-bit decimal number.
ZeroTexts == { <<"0">>, <<"0", "\n">>, <<"+", "0">>, <<"0", "0">> }

UnparsableTexts ==
    { <<>>, <<"\n">>, <<"+">>, <<"1", "k">>, <<"-", "1">>, <<"5", "0", "0", " ">>,
      <<"0", "x", "1", "0">>,
      <<"4", "2", "9", "4", "9", "6", "7", "2", "9", "6">>,
      <<"9", "9", "9", "9", "9", "9", "9", "9", "9", "9", "9">> }

\* C9: a write of zero or of a text that is no u32 fails, pwm_config is not
\* called, and period, duty and the rate read back stay as they were.
C9_BadWriteChangesNothing ==
    (last.op = "store" /\ last.arg \in ZeroTexts \cup UnparsableTexts) =>
        /\ last.ret \in {"EINVAL", "ERANGE"}
        /\ last.call = <<>>
        /\ pwm = last.pre
        /\ sampling_frequency_show(pwm) = sampling_frequency_show(last.pre)

\* A write of "0" failed after the rate had been set to 500 Hz.
C9_ZeroAfter500 ==
    /\ last.op = "store" /\ last.arg = <<"0">> /\ last.ret = "EINVAL"
    /\ pwm.period = 2000000

(***************************************************************************)
(* Properties of the trigger ops.                                          *)
(***************************************************************************)
\* C10: a consumer whose trigger is the provider's got it through setup, and
\* every write of the trigger's name to current_trigger is refused and
\* changes nothing.
C10_OnlyThroughSetup ==
    /\ \A c \in DOMAIN cons : cons[c].trig = AxiTrig => cons[c].via = "setup"
    /\ (last.op = "current_trigger" /\ last.t = AxiTrig) =>
          /\ last.ret = "EINVAL"
          /\ cons[last.c] = last.pre.cons
          /\ trig_refs = last.pre.refs

\* User space tried to assign the registered trigger and was refused.
C10_SysfsRefused ==
    last.op = "current_trigger" /\ last.t = AxiTrig /\ last.ret = "EINVAL"

(***************************************************************************)
(* Properties of teardown and of reference counting.                       *)
(***************************************************************************)
\* How often x occurs in a sequence.
CountIn(seq, x) == Cardinality({i \in 1..Len(seq) : seq[i] = x})

\* The reference the provider itself holds on its trigger: the one
\* devm_iio_trigger_alloc gave it, until its devres entry is released.
ProviderHolds == CountIn(devres, "trigger_free")

\* The last call was the teardown of a consumer that had acquired the
\* provider's trigger and attached it with setup (once).
AttachedTeardown ==
    /\ last.op = "teardown"
    /\ last.pre.cons.trig = AxiTrig /\ last.pre.cons.via = "setup"
    /\ CountIn(last.pre.cons.devres, AxiTrig) > 0
    /\ CountIn(last.pre.cons.lost, AxiTrig) = 0

\* C11: the teardown of a consumer that acquired and attached the trigger
\* gives back every reference the consumer took, so that the trigger's count
\* is what the provider alone holds, as before the acquisition, and leaves the
\* PWM as it was: enabled, with the same period and duty, while the provider
\* is bound.
C11_TeardownRestoresCount ==
    AttachedTeardown =>
        /\ trig_refs[AxiTrig] = ProviderHolds
        /\ trig_refs[AxiTrig] =
              last.pre.refs[AxiTrig] - CountIn(last.pre.cons.devres, AxiTrig) - 1
        /\ pwm = last.pre.pwm
        /\ ppc = "bound" => (pwm.enabled /\ trig.registered /\ trig_refs[AxiTrig] = 1)

\* A consumer that held two references (one acquisition, one setup) was torn
\* down while the provider stayed bound.
C11_TeardownWhileBound ==
    /\ AttachedTeardown /\ ppc = "bound"
    /\ last.pre.refs[AxiTrig] = 3 /\ trig_refs[AxiTrig] = 1

\* The references on trigger t that consumer record cn accounts for: one per
\* release action in its devres list, the one of its iio_dev's trigger, and
\* those its iio_dev lost when setup overwrote its trigger.
ConsumerHolds(cn, t) ==
    CountIn(cn.devres, t) + (IF cn.trig = t THEN 1 ELSE 0) + CountIn(cn.lost, t)

RECURSIVE SumHolds(_, _)
SumHolds(cs, t) ==
    IF cs = {} THEN 0
    ELSE LET c == CHOOSE x \in cs : TRUE
         IN  ConsumerHolds(cons[c], t) + SumHolds(cs \ {c}, t)

\* The reference a trigger's own driver holds.
OwnerHolds(t) == IF t = AxiTrig THEN ProviderHolds ELSE 1

\* C12: a reference get_optional takes is released exactly once.  When the
\* call returns the trigger or -EINVAL the reference is in the consumer's
\* devres list, once; when the release action cannot be added the count is as
\* before the call and nothing is in the list.  The consumer's teardown puts
\* each trigger once per entry of the list and empties it.  In every state the
\* count of each trigger is what its owner and the consumers account for.
C12_AcquiredReleasedOnce ==
    /\ \A t \in Triggers : trig_refs[t] = OwnerHolds(t) + SumHolds(DOMAIN cons, t)
    /\ \A c \in DOMAIN cons : cons[c].gone => cons[c].devres = <<>>
    /\ last.op = "get_optional" =>
          /\ last.ret \in Triggers \cup {"EINVAL"} =>
                /\ cons[last.c].devres = Append(last.pre.cons.devres, last.t)
                /\ trig_refs[last.t] = last.pre.refs[last.t] + 1
          /\ last.ret \notin Triggers \cup {"EINVAL"} =>
                /\ cons[last.c].devres = last.pre.cons.devres
                /\ trig_refs = last.pre.refs
    /\ last.op = "teardown" =>
          \A t \in Triggers :
              trig_refs[t] = last.pre.refs[t] - CountIn(last.pre.cons.devres, t)
                             - (IF last.pre.cons.trig = t THEN 1 ELSE 0)

\* A consumer was torn down that had acquired the trigger once and had then
\* been refused a second acquisition for want of memory.
C12_TeardownAfterNoMemory ==
    /\ last.op = "teardown"
    /\ last.pre.cons.ret = "ENOMEM"
    /\ last.pre.cons.devres = <<AxiTrig>>

(***************************************************************************)
(* Properties of the provider's life cycle.                                *)
(***************************************************************************)
\* The entries the probe puts on the provider's devres list, in the order in
\* which it obtains the resources.
ProbeOrder ==
    <<"kfree_st", "pwm_put", "buffer_free", "trigger_free", "pwm_disable",
      "trigger_unregister">>

\* The devres list holds the resources obtained and not yet released: it is
\* a prefix of ProbeOrder (so the newest is released first), each resource is
\* live exactly while its entry is on the list, and none was released twice.
DevresInOrder ==
    /\ Len(devres) <= Len(ProbeOrder)
    /\ devres = SubSeq(ProbeOrder, 1, Len(devres))
    /\ st.alive <=> CountIn(devres, "kfree_st") = 1
    /\ pwm.requested <=> CountIn(devres, "pwm_put") = 1
    /\ buf = "allocated" <=> CountIn(devres, "buffer_free") = 1
    /\ buf # "double_free"
    /\ trig.registered <=> CountIn(devres, "trigger_unregister") = 1
    /\ pwm.enabled <=> (CountIn(devres, "pwm_disable") = 1 \/ ppc = "add_action")
    /\ pwm.disables <= 1

\* C13: when the probe fails at any step the trigger is not registered, and
\* once the devres list has been released the PWM is disabled and put, the
\* buffer and st are freed and the provider's reference on the trigger is
\* dropped, each once and the newest first.
C13_FailedProbeReleasesAll ==
    /\ DevresInOrder
    /\ ppc = "failed" => ~trig.registered
    /\ (ppc = "unbound" /\ last.op = "devres_release_all") =>
          /\ devres = <<>>
          /\ ~trig.registered /\ trig.state \in {"none", "freed"}
          /\ trig_refs[AxiTrig] = 0
          /\ ~pwm.enabled /\ ~pwm.requested
          /\ buf \in {"none", "released"}
          /\ ~st.alive

\* A probe that had enabled the PWM failed and everything was released.
C13_LateFailureReleased ==
    /\ ppc = "unbound" /\ last.op = "devres_release_all"
    /\ pwm.disables = 1 /\ buf = "released" /\ trig.state = "freed"

\* Provider and consumers are all torn down.
AllTornDown == ppc = "removed" /\ \A c \in DOMAIN cons : cons[c].gone

\* C14: in whatever order provider and consumer are torn down, the PWM is
\* disabled once and the buffer released once, never twice, and each release
\* action of a consumer puts its trigger once: when both are gone no count is
\* negative, the PWM was disabled exactly once, the buffer is released, and
\* the trigger is freed with its last reference.
C14_TeardownAnyOrder ==
    /\ pwm.disables <= 1 /\ buf # "double_free"
    /\ \A t \in Triggers : trig_refs[t] >= 0
    /\ ppc = "removed" =>
          /\ pwm.disables = 1 /\ ~pwm.enabled /\ ~pwm.requested
          /\ buf = "released" /\ ~st.alive
    /\ last.op = "teardown" =>
          /\ cons[last.c].devres = <<>>
          /\ trig_refs[AxiTrig] = last.pre.refs[AxiTrig]
                - CountIn(last.pre.cons.devres, AxiTrig)
                - (IF last.pre.cons.trig = AxiTrig THEN 1 ELSE 0)
    /\ AllTornDown =>
          /\ trig_refs[AxiTrig] = SumHolds(DOMAIN cons, AxiTrig)
          /\ trig_refs[AxiTrig] = 0 => trig.state = "freed"
          /\ trig_refs[AxiTrig] > 0 => trig.state = "allocated"

\* The provider was removed first, then the consumer that held the trigger:
\* the consumer's teardown dropped the last reference.
C14_ProviderFirst ==
    /\ last.op = "teardown" /\ ppc = "removed"
    /\ last.pre.cons.trig = AxiTrig
    /\ CountIn(last.pre.cons.devres, AxiTrig) = 1
    /\ trig.state = "freed" /\ pwm.disables = 1 /\ buf = "released"

(***************************************************************************)
(* Further properties of the rate controller.                              *)
(***************************************************************************)
\* C15: once a period is configured the duty cycle recorded by the PWM is
\* 10 ns, and a step that changes the recorded period or duty is a call of
\* axi_spi_engine_offload_set_samp_freq: the probe's, or a write of the
\* attribute.
C15_DutyFixedOnlySetRate ==
    [][ /\ pwm'.period # 0 => pwm'.duty = DutyNs
        /\ (pwm'.period # pwm.period \/ pwm'.duty # pwm.duty) =>
              last'.op \in {"set_samp_freq", "store"} ]_vars

\* Two different rates were configured in a row (1000 Hz, then 500 Hz) and the
\* duty is still 10 ns.
C15_SecondRateSameDuty ==
    /\ last.op = "store" /\ last.ret = "len"
    /\ last.pre.period = 1000000 /\ last.pre.duty = DutyNs
    /\ pwm.period = 2000000 /\ pwm.duty = DutyNs

\* round(10^9 / period) for a u64 period other than 0: 0 for every period of
\* 2^32 and more.
RoundedRate(period) == IF period[1] # 0 THEN 0 ELSE RoundDiv(NSEC_PER_SEC, period[2])

Attached == {c \in DOMAIN cons : cons[c].trig = AxiTrig /\ cons[c].buffer = ProvBuf}

\* C17: of two consumers that reference the same provider, at most one has the
\* trigger as its active trigger and the trigger's buffer attached, after any
\* sequence of get_optional and setup calls by both.
C17_AtMostOneAttached == Cardinality(Attached) <= 1

\* C18: a consumer never uses provider state that has been released: setup
\* reads st->buffer only while st is allocated and attaches only a buffer that
\* is allocated, and the buffer attached to a consumer that is still there is
\* not released.
C18_NoUseAfterRelease ==
    /\ (last.op = "setup" /\ TrigOps(last.t) = AxiOps) =>
           st.alive /\ last.arg = <<ProvBuf>> /\ buf = "allocated"
    /\ \A c \in DOMAIN cons :
           (~cons[c].gone /\ cons[c].buffer # "none") =>
               cons[c].buffer = ProvBuf /\ buf = "allocated"

\* C19: setup is all or nothing: after a setup that returned an error, the
\* consumer's modes, its active trigger and the reference count of the trigger
\* are what they were before the call.
C19_FailedSetupChangesNothing ==
    (last.op = "setup" /\ last.ret # "OK") =>
        /\ cons[last.c].modes = last.pre.cons.modes
        /\ cons[last.c].trig = last.pre.cons.trig
        /\ trig_refs[last.t] = last.pre.refs[last.t]

\* C20: get_optional keeps only the reference on the trigger: on every return
\* path the reference counts of the referenced node and of the provider device
\* are what they were before the call.
C20_NodeAndDeviceBalanced ==
    last.op = "get_optional" => kobj_refs = last.pre.kobj

====
